---- MODULE Spec2Model ----
(***************************************************************************)
(* ImageConverter (Front/src/components/image_converter/ImageConverter.tsx)*)
(*                                                                         *)
(* The React component as a state machine.  The variables are the          *)
(* component's useState cells, the browser's table of object URLs          *)
(* (URL.createObjectURL / URL.revokeObjectURL) and the conversions that    *)
(* convertOnly has started.  One action is one event handler or one        *)
(* browser callback, together with the re-render React performs for the    *)
(* state updates the handler queued: a handler therefore reads, through    *)
(* its closure, the state as it stood when the handler started, and every  *)
(* callback it registers (img.onload, the toBlob callback) keeps reading   *)
(* those same values however late it runs.                                 *)
(*                                                                         *)
(* Numbers: quality is kept in hundredths (0.8 is 80) and the zoom level   *)
(* in tenths (1.0 is 10), so that the model stays within the integers.     *)
(***************************************************************************)
EXTENDS Integers, Sequences, FiniteSets, TLC

\* ------------------------------------------------------------------ bounds
\* Conversions started (calls of convertOnly) in one behaviour.
MaxRequests == 3
\* Export links created (calls of handleDownload that reach createObjectURL).
MaxDownloads == 1
\* Image items carried by one paste event.
MaxPasteItems == 2
\* The container's bounding rectangle (rect.left, rect.width) and the largest
\* clientX of a pointer event, in pixels: clientX ranges over 0..MaxClientX,
\* from left of the container to right of it.
ContainerLeft == 2
ContainerWidth == 4
MaxClientX == 8
\* Images loaded one after the other in a behaviour that follows the slider.
MaxSessions == 2

\* ------------------------------------------------------- program constants
\* useState(0.8), in hundredths.
InitQuality == 80
\* useState(1), in tenths.
InitZoom == 10
\* Math.min(z + 0.1, 3) and Math.max(z - 0.1, 0.5), in tenths.
ZoomMax == 30
ZoomMin == 5
ZoomStep == 1

\* clipPath: `inset(0 50% 0 0)` and left: `50%`, in percent.
InitPos == 50

\* useState<"jpeg" | "png" | "webp" | "avif">("jpeg")
InitFormat == "jpeg"

\* const formats = ["jpeg", "png", "webp", "avif"]
formats == {"jpeg", "png", "webp", "avif"}

\* The MIME subtypes a dropped or picked file can declare (useDropzone accept).
AcceptedSubtypes == {"jpeg", "png", "webp", "avif"}

\* Values the quality range input (min 0.1, max 1, step 0.05) is moved to,
\* in hundredths.
QualityInputs == {50}

\* ---------------------------------------------------------------- values
\* null for a File, a Blob and an object URL.
NoFile == [n |-> 0, ext |-> "none"]
NoBlob == [req |-> 0, src |-> 0, fmt |-> "none", q |-> 0, type |-> "none"]
NoUrl == 0

\* The kinds of object URL the component creates, by the place that creates it.
Roles == {"original", "decode", "converted", "export"}

\* The window events the component listens to.
EventTypes == {"mousemove", "touchmove", "mouseup", "touchend", "paste"}

VARIABLES
  file,           \* useState<File | null>
  format,         \* useState format
  quality,        \* useState quality, in hundredths
  convertedUrl,   \* useState<string | null>
  convertedBlob,  \* useState<Blob | null>
  originalUrl,    \* useState<string | null>
  zoomLevel,      \* useState zoom, in tenths
  published,      \* object URLs created so far: published[u] is the role of URL u
  revoked,        \* object URLs passed to URL.revokeObjectURL
  inflight,       \* the calls of convertOnly whose callbacks are still pending
  issued,         \* number of calls of convertOnly so far
  succeeded,      \* the calls of convertOnly whose toBlob callback got a blob
  loads,          \* number of File objects handed to handleNewFile
  downloads,      \* what handleDownload offered, one entry per link clicked
  pos,            \* the split position the clip and the divider are styled with, in percent
  isDragging,     \* isDragging.current
  listeners,      \* listeners[t]: the component's listeners registered on window for event t
  mounted         \* the component is mounted

\* The slider and the component's registration with the window.
sliderVars == <<pos, isDragging, listeners, mounted>>

vars == <<file, format, quality, convertedUrl, convertedBlob, originalUrl,
          zoomLevel, published, revoked, inflight, issued, succeeded, loads,
          downloads, pos, isDragging, listeners, mounted>>

\* What is rendered: the image view (images, slider, controls) while
\* originalUrl is non-null, the dropzone otherwise.
ImageViewRendered == mounted /\ originalUrl # NoUrl
DropzoneRendered == mounted /\ originalUrl = NoUrl

\* ------------------------------------------------------- the URL registry
\* URL.createObjectURL returns a string never returned before: the next index.
NextUrl(pub) == Len(pub) + 1

\* URL.createObjectURL(x), for a caller of the given role.
createObjectURL(pub, role) == Append(pub, role)

\* URL.revokeObjectURL(u): revoking a revoked URL changes nothing.
revokeObjectURL(rev, u) == rev \cup {u}

\* Published and not yet revoked.
Live == {u \in 1..Len(published) : u \notin revoked}
LiveOf(role) == {u \in Live : published[u] = role}

\* ------------------------------------------------------------ autoConvert
\* inferDefaultFormat without the alias: only "jpeg" is taken for a JPEG.
inferDefaultFormatNoAlias(ext) == IF ext = "jpeg" THEN "png" ELSE "jpeg"

\* const ext = file.type.split("/")[1];
\* if (ext === "jpeg" || ext === "jpg") setFormat("png") else setFormat("jpeg")
inferDefaultFormat(ext) == IF ext = "jpeg" \/ ext = "jpg" THEN "png" ELSE "jpeg"

\* ------------------------------------------------------------ convertOnly
\* One call of convertOnly(inputFile) made by a handler whose closure holds
\* cFormat, cQuality and cUrl for format, quality and convertedUrl.  The call
\* creates the object URL the Image decodes from and leaves img.onload
\* pending.  fmt and q are the arguments canvas.toBlob will be given, cap the
\* URL its callback will revoke.  by, wantFmt and wantQ record the action
\* that made the call and the format and quality that action selected.
Request(id, inputFile, cFormat, cQuality, cUrl, srcUrl, by, wantFmt, wantQ) ==
  [id |-> id, file |-> inputFile.n, fmt |-> cFormat, q |-> cQuality, cap |-> cUrl,
   src |-> srcUrl, by |-> by, wantFmt |-> wantFmt, wantQ |-> wantQ,
   st |-> "decoding"]

\* The registry, the pending requests and their count after
\* convertOnly(inputFile).
convertOnly(pub, reqs, n, inputFile, cFormat, cQuality, cUrl, by, wantFmt, wantQ) ==
  [pub  |-> createObjectURL(pub, "decode"),
   reqs |-> reqs \cup {Request(n + 1, inputFile, cFormat, cQuality, cUrl,
                               NextUrl(pub), by, wantFmt, wantQ)},
   n    |-> n + 1]

\* ---------------------------------------------------------- handleNewFile
\* handleNewFile(f) run with the closure values cFormat, cQuality, cUrl:
\* createObjectURL(f) for the original, then autoConvert(f), which calls
\* convertOnly(f).  The registry and the request list afterwards.
handleNewFile(pub, reqs, n, f, cFormat, cQuality, cUrl, by) ==
  convertOnly(createObjectURL(pub, "original"), reqs, n, f, cFormat, cQuality,
              cUrl, by, inferDefaultFormat(f.ext), quality)

\* handleNewFile applied to each file of fs in turn (the loop of handlePaste).
RECURSIVE handleNewFiles(_, _, _, _, _, _, _, _)
handleNewFiles(pub, reqs, n, fs, cFormat, cQuality, cUrl, by) ==
  IF fs = <<>> THEN [pub |-> pub, reqs |-> reqs, n |-> n]
  ELSE LET one == handleNewFile(pub, reqs, n, Head(fs), cFormat, cQuality, cUrl, by)
       IN handleNewFiles(one.pub, one.reqs, one.n, Tail(fs), cFormat, cQuality, cUrl, by)

\* The File objects a load of k files with the given subtypes creates.
NewFiles(exts) == [i \in 1..Len(exts) |-> [n |-> loads + i, ext |-> exts[i]]]

\* The object URL handleNewFile creates for the i-th file of a load: each
\* handleNewFile creates two URLs, the original's first.
OriginalUrlOf(pub, i) == Len(pub) + 2 * i - 1

\* ------------------------------------------------------------------- Init
\* The component after its first render and the run of its effect, which
\* registers stopDrag for mouseup and touchend and handlePaste for paste.
Init ==
  /\ file = NoFile
  /\ format = InitFormat
  /\ quality = InitQuality
  /\ convertedUrl = NoUrl
  /\ convertedBlob = NoBlob
  /\ originalUrl = NoUrl
  /\ zoomLevel = InitZoom
  /\ published = <<>>
  /\ revoked = {}
  /\ inflight = {}
  /\ issued = 0
  /\ succeeded = {}
  /\ loads = 0
  /\ downloads = <<>>
  /\ pos = InitPos
  /\ isDragging = FALSE
  /\ listeners = [t \in EventTypes |-> IF t \in {"mouseup", "touchend", "paste"} THEN 1 ELSE 0]
  /\ mounted = TRUE

\* ---------------------------------------------------------------- onDrop
\* The dropzone is rendered only while originalUrl is null.  onDrop takes
\* acceptedFiles[0]; its closure is the current render's.  The image view
\* that replaces the dropzone is created with the slider at 50%.
OnDrop(ext) ==
  /\ DropzoneRendered
  /\ issued < MaxRequests
  /\ LET fs == NewFiles(<<ext>>)
         r  == handleNewFiles(published, inflight, issued, fs, format, quality,
                              convertedUrl, "drop")
     IN /\ file' = fs[1]
        /\ originalUrl' = OriginalUrlOf(published, 1)
        /\ format' = inferDefaultFormat(ext)
        /\ published' = r.pub
        /\ inflight' = r.reqs
        /\ issued' = r.n
        /\ loads' = loads + 1
  /\ UNCHANGED <<quality, convertedUrl, convertedBlob, zoomLevel, revoked,
                 succeeded, downloads>>
  /\ pos' = IF originalUrl = NoUrl THEN InitPos ELSE pos
  /\ UNCHANGED <<isDragging, listeners, mounted>>

\* ------------------------------------------------------------ handlePaste
\* The paste listener is registered by the effect with dependencies
\* [moveSlider], which never change: the handlePaste that runs is the first
\* render's, and so are the handleNewFile, autoConvert and convertOnly it
\* reaches.  Their closure holds the initial format, quality and convertedUrl.
\* exts: the subtypes of the image items of the clipboard, in order.  A paste
\* over a loaded image keeps the image view and its slider as they are.
HandlePaste(exts) ==
  /\ listeners["paste"] > 0
  /\ issued + Len(exts) <= MaxRequests
  /\ LET fs == NewFiles(exts)
         r  == handleNewFiles(published, inflight, issued, fs, InitFormat, InitQuality,
                              NoUrl, "paste")
     IN /\ file' = fs[Len(fs)]
        /\ originalUrl' = OriginalUrlOf(published, Len(fs))
        /\ format' = inferDefaultFormat(exts[Len(exts)])
        /\ published' = r.pub
        /\ inflight' = r.reqs
        /\ issued' = r.n
        /\ loads' = loads + Len(exts)
  /\ UNCHANGED <<quality, convertedUrl, convertedBlob, zoomLevel, revoked,
                 succeeded, downloads>>
  /\ pos' = IF originalUrl = NoUrl THEN InitPos ELSE pos
  /\ UNCHANGED <<isDragging, listeners, mounted>>

\* ----------------------------------------------------- handleFormatChange
\* The Listbox is rendered only while originalUrl is non-null, and file is
\* non-null exactly then (both are set by handleNewFile and handleReset).
\* handleFormatChange that converts only when no conversion is pending
\* (changes made meanwhile are coalesced).
HandleFormatChangeCoalescing(value) ==
  /\ ImageViewRendered
  /\ issued < MaxRequests
  /\ format' = value
  /\ IF file # NoFile /\ inflight = {}
       THEN LET r == convertOnly(published, inflight, issued, file, format, quality,
                                 convertedUrl, "format", value, quality)
            IN published' = r.pub /\ inflight' = r.reqs /\ issued' = r.n
       ELSE UNCHANGED <<published, inflight, issued>>
  /\ UNCHANGED <<file, quality, convertedUrl, convertedBlob, originalUrl,
                 zoomLevel, revoked, succeeded, loads, downloads>>
  /\ UNCHANGED sliderVars

HandleFormatChange(value) ==
  /\ ImageViewRendered
  /\ issued < MaxRequests
  /\ format' = value
  /\ IF file # NoFile
       THEN LET r == convertOnly(published, inflight, issued, file, format, quality,
                                 convertedUrl, "format", value, quality)
            IN published' = r.pub /\ inflight' = r.reqs /\ issued' = r.n
       ELSE UNCHANGED <<published, inflight, issued>>
  /\ UNCHANGED <<file, quality, convertedUrl, convertedBlob, originalUrl,
                 zoomLevel, revoked, succeeded, loads, downloads>>
  /\ UNCHANGED sliderVars

\* ---------------------------------------------------- handleQualityChange
HandleQualityChange(newQuality) ==
  /\ ImageViewRendered
  /\ issued < MaxRequests
  /\ quality' = newQuality
  /\ IF file # NoFile
       THEN LET r == convertOnly(published, inflight, issued, file, format, quality,
                                 convertedUrl, "quality", format, newQuality)
            IN published' = r.pub /\ inflight' = r.reqs /\ issued' = r.n
       ELSE UNCHANGED <<published, inflight, issued>>
  /\ UNCHANGED <<file, format, convertedUrl, convertedBlob, originalUrl,
                 zoomLevel, revoked, succeeded, loads, downloads>>
  /\ UNCHANGED sliderVars

\* ------------------------------------------- convertOnly: img.onload
\* img.onload of request r.  canvas.getContext("2d") returns a context:
\* drawImage, then canvas.toBlob is called with the closure's format and
\* quality.
ImgOnload(r) ==
  /\ r.st = "decoding"
  /\ inflight' = (inflight \ {r}) \cup {[r EXCEPT !.st = "encoding"]}
  /\ UNCHANGED <<file, format, quality, convertedUrl, convertedBlob, originalUrl,
                 zoomLevel, published, revoked, issued, succeeded, loads, downloads>>
  /\ UNCHANGED sliderVars

\* img.onload of request r.  canvas.getContext("2d") returns null:
\* if (!ctx) return.
ImgOnloadNoCtx(r) ==
  /\ r.st = "decoding"
  /\ inflight' = inflight \ {r}
  /\ UNCHANGED <<file, format, quality, convertedUrl, convertedBlob, originalUrl,
                 zoomLevel, published, revoked, issued, succeeded, loads, downloads>>
  /\ UNCHANGED sliderVars

\* The image of request r cannot be decoded: the browser fires the error
\* event, for which convertOnly sets no handler.
ImgOnerror(r) ==
  /\ r.st = "decoding"
  /\ inflight' = inflight \ {r}
  /\ UNCHANGED <<file, format, quality, convertedUrl, convertedBlob, originalUrl,
                 zoomLevel, published, revoked, issued, succeeded, loads, downloads>>
  /\ UNCHANGED sliderVars

\* ------------------------------------- convertOnly: the toBlob callback
\* The types canvas.toBlob can produce when asked for image/fmt: fmt, or
\* image/png when the browser does not encode fmt (png and jpeg always are).
EncodedTypes(fmt) == IF fmt \in {"png", "jpeg"} THEN {fmt} ELSE {fmt, "png"}

\* The Blob request r yields: encoded from r's file with r's format and
\* quality, of the given MIME subtype.
BlobOf(r, type) == [req |-> r.id, src |-> r.file, fmt |-> r.fmt, q |-> r.q, type |-> type]

\* RevokeCaptured with the revocation left out.
RevokeNothing(rev, cap) == rev

\* if (convertedUrl) URL.revokeObjectURL(convertedUrl), with the closure's
\* convertedUrl.
RevokeCaptured(rev, cap) == IF cap # NoUrl THEN revokeObjectURL(rev, cap) ELSE rev

\* The callback of request r is handed a non-null blob.  The URLs are
\* revoked and created whether or not the component is still mounted; the
\* state setters of an unmounted component change nothing.
ToBlobCallback(r, type) ==
  /\ r.st = "encoding"
  /\ revoked' = RevokeCaptured(revoked, r.cap)
  /\ published' = createObjectURL(published, "converted")
  /\ convertedUrl' = (IF mounted THEN NextUrl(published) ELSE convertedUrl)
  /\ convertedBlob' = (IF mounted THEN BlobOf(r, type) ELSE convertedBlob)
  /\ inflight' = inflight \ {r}
  /\ succeeded' = succeeded \cup {r.id}
  /\ UNCHANGED <<file, format, quality, originalUrl, zoomLevel, issued, loads, downloads>>
  /\ UNCHANGED sliderVars

\* ToBlobNull with the revocation moved out of if (blob): the captured URL is
\* revoked although no new one replaces it.
ToBlobNullRevoking(r) ==
  /\ r.st = "encoding"
  /\ inflight' = inflight \ {r}
  /\ revoked' = IF r.cap # NoUrl THEN revokeObjectURL(revoked, r.cap) ELSE revoked
  /\ UNCHANGED <<file, format, quality, convertedUrl, convertedBlob, originalUrl,
                 zoomLevel, published, issued, succeeded, loads, downloads>>
  /\ UNCHANGED sliderVars

\* ToBlobNull with an else branch that clears the converted state.
ToBlobNullClearing(r) ==
  /\ r.st = "encoding"
  /\ inflight' = inflight \ {r}
  /\ convertedUrl' = NoUrl
  /\ convertedBlob' = NoBlob
  /\ UNCHANGED <<file, format, quality, originalUrl, zoomLevel, published, revoked,
                 issued, succeeded, loads, downloads>>
  /\ UNCHANGED sliderVars

\* The callback of request r is handed null.
ToBlobNull(r) ==
  /\ r.st = "encoding"
  /\ inflight' = inflight \ {r}
  /\ UNCHANGED <<file, format, quality, convertedUrl, convertedBlob, originalUrl,
                 zoomLevel, published, revoked, issued, succeeded, loads, downloads>>
  /\ UNCHANGED sliderVars

\* ------------------------------------------------------------ handleReset
\* handleReset without setZoomLevel(1).
HandleResetKeepZoom ==
  /\ ImageViewRendered
  /\ file' = NoFile
  /\ originalUrl' = NoUrl
  /\ convertedUrl' = NoUrl
  /\ convertedBlob' = NoBlob
  /\ UNCHANGED <<format, quality, zoomLevel, published, revoked, inflight, issued,
                 succeeded, loads, downloads>>
  /\ UNCHANGED sliderVars

\* The reset button is rendered only while originalUrl is non-null.
HandleReset ==
  /\ ImageViewRendered
  /\ file' = NoFile
  /\ originalUrl' = NoUrl
  /\ convertedUrl' = NoUrl
  /\ convertedBlob' = NoBlob
  /\ zoomLevel' = InitZoom
  /\ UNCHANGED <<format, quality, published, revoked, inflight, issued, succeeded,
                 loads, downloads>>
  /\ UNCHANGED sliderVars

\* --------------------------------------------------------- handleDownload
\* handleDownload naming the file after the blob's own type instead of the
\* selected format.
HandleDownloadSniffed ==
  /\ ImageViewRendered
  /\ IF convertedBlob = NoBlob
       THEN UNCHANGED <<published, downloads>>
       ELSE /\ Len(downloads) < MaxDownloads
            /\ published' = createObjectURL(published, "export")
            /\ downloads' = Append(downloads, [blob |-> convertedBlob,
                                               ext |-> convertedBlob.type])
  /\ UNCHANGED <<file, format, quality, convertedUrl, convertedBlob, originalUrl,
                 zoomLevel, revoked, inflight, issued, succeeded, loads>>
  /\ UNCHANGED sliderVars

\* if (!convertedBlob) return; otherwise an object URL is created for the
\* blob and the link is clicked with download = `converted.${format}`.
HandleDownload ==
  /\ ImageViewRendered
  /\ IF convertedBlob = NoBlob
       THEN UNCHANGED <<published, downloads>>
       ELSE /\ Len(downloads) < MaxDownloads
            /\ published' = createObjectURL(published, "export")
            /\ downloads' = Append(downloads, [blob |-> convertedBlob, ext |-> format])
  /\ UNCHANGED <<file, format, quality, convertedUrl, convertedBlob, originalUrl,
                 zoomLevel, revoked, inflight, issued, succeeded, loads>>
  /\ UNCHANGED sliderVars

\* ------------------------------------------------ zoomIn, zoomOut, zoomFit
Min(a, b) == IF a < b THEN a ELSE b
Max(a, b) == IF a > b THEN a ELSE b

ZoomIn ==
  /\ ImageViewRendered
  /\ zoomLevel' = Min(zoomLevel + ZoomStep, ZoomMax)
  /\ UNCHANGED <<file, format, quality, convertedUrl, convertedBlob, originalUrl,
                 published, revoked, inflight, issued, succeeded, loads, downloads>>
  /\ UNCHANGED sliderVars

\* zoomOut without the floor Math.max(..., 0.5).
ZoomOutUnbounded ==
  /\ ImageViewRendered
  /\ zoomLevel' = zoomLevel - ZoomStep
  /\ UNCHANGED <<file, format, quality, convertedUrl, convertedBlob, originalUrl,
                 published, revoked, inflight, issued, succeeded, loads, downloads>>
  /\ UNCHANGED sliderVars

ZoomOut ==
  /\ ImageViewRendered
  /\ zoomLevel' = Max(zoomLevel - ZoomStep, ZoomMin)
  /\ UNCHANGED <<file, format, quality, convertedUrl, convertedBlob, originalUrl,
                 published, revoked, inflight, issued, succeeded, loads, downloads>>
  /\ UNCHANGED sliderVars

\* zoomFit that also converts the loaded file again, as a change of format
\* or quality does.
ZoomFitReconverting ==
  /\ ImageViewRendered
  /\ zoomLevel' = InitZoom
  /\ IF file # NoFile /\ issued < MaxRequests
       THEN LET r == convertOnly(published, inflight, issued, file, format, quality,
                                 convertedUrl, "format", format, quality)
            IN published' = r.pub /\ inflight' = r.reqs /\ issued' = r.n
       ELSE UNCHANGED <<published, inflight, issued>>
  /\ UNCHANGED <<file, format, quality, convertedUrl, convertedBlob, originalUrl,
                 revoked, succeeded, loads, downloads>>
  /\ UNCHANGED sliderVars

ZoomFit ==
  /\ ImageViewRendered
  /\ zoomLevel' = InitZoom
  /\ UNCHANGED <<file, format, quality, convertedUrl, convertedBlob, originalUrl,
                 published, revoked, inflight, issued, succeeded, loads, downloads>>
  /\ UNCHANGED sliderVars

\* ------------------------------------------------ the window's listeners
\* addEventListener as if the callback were a new function on every call:
\* nothing is recognised as registered already.
addEventListenerAgain(l, t) == [l EXCEPT ![t] = l[t] + 1]

\* window.addEventListener(t, f).  The component registers one function per
\* event type (onMouseMove and onTouchMove are kept by useCallback, stopDrag
\* and handlePaste are the first render's), and a function that is
\* registered already is not registered again.
addEventListener(l, t) == IF l[t] > 0 THEN l ELSE [l EXCEPT ![t] = 1]

\* window.removeEventListener(t, f).
removeEventListener(l, t) == IF l[t] > 0 THEN [l EXCEPT ![t] = l[t] - 1] ELSE l

\* ------------------------------------------------------------- moveSlider
\* moveSlider without Math.min(Math.max(pos, 0), 100).
moveSliderUnclamped(clientX) ==
  IF ImageViewRendered
    THEN ((clientX - ContainerLeft) * 100) \div ContainerWidth
    ELSE pos

\* The position after moveSlider(clientX).  Without the container, the clip
\* and the divider (the image view is not rendered, the refs are null) it
\* returns at once; otherwise
\* pos = ((clientX - rect.left) / rect.width) * 100, clamped to [0, 100].
moveSlider(clientX) ==
  IF ImageViewRendered
    THEN Min(Max(((clientX - ContainerLeft) * 100) \div ContainerWidth, 0), 100)
    ELSE pos

\* The window dispatches mousemove: onMouseMove runs if it is registered.
onMouseMove(clientX) ==
  /\ pos' = IF listeners["mousemove"] > 0 THEN moveSlider(clientX) ELSE pos
  /\ UNCHANGED <<file, format, quality, convertedUrl, convertedBlob, originalUrl,
                 zoomLevel, published, revoked, inflight, issued, succeeded, loads,
                 downloads, isDragging, listeners, mounted>>

\* The window dispatches touchmove: onTouchMove runs if it is registered,
\* with e.touches[0].clientX.
onTouchMove(clientX) ==
  /\ pos' = IF listeners["touchmove"] > 0 THEN moveSlider(clientX) ELSE pos
  /\ UNCHANGED <<file, format, quality, convertedUrl, convertedBlob, originalUrl,
                 zoomLevel, published, revoked, inflight, issued, succeeded, loads,
                 downloads, isDragging, listeners, mounted>>

\* -------------------------------------------------------------- startDrag
\* onMouseDown / onTouchStart of the handle: the event's target is inside the
\* handle, which is rendered with the image view.
startDrag ==
  /\ ImageViewRendered
  /\ isDragging' = TRUE
  /\ listeners' = addEventListener(addEventListener(listeners, "mousemove"), "touchmove")
  /\ UNCHANGED <<file, format, quality, convertedUrl, convertedBlob, originalUrl,
                 zoomLevel, published, revoked, inflight, issued, succeeded, loads,
                 downloads, pos, mounted>>

\* A mouse-down or touch-start outside the handle: no handler of the
\* component is attached there.
PointerDownElsewhere ==
  /\ mounted
  /\ UNCHANGED vars

\* --------------------------------------------------------------- stopDrag
\* stopDrag without isDragging.current = false.
stopDragKeepFlag(t) ==
  /\ IF listeners[t] > 0 /\ isDragging
       THEN listeners' = removeEventListener(removeEventListener(listeners, "mousemove"),
                                             "touchmove")
       ELSE UNCHANGED listeners
  /\ UNCHANGED <<file, format, quality, convertedUrl, convertedBlob, originalUrl,
                 zoomLevel, published, revoked, inflight, issued, succeeded, loads,
                 downloads, pos, isDragging, mounted>>

\* The window dispatches t (mouseup or touchend): stopDrag runs if it is
\* registered for t.  if (isDragging.current) the flag is cleared and the
\* move listeners are removed.
stopDrag(t) ==
  /\ IF listeners[t] > 0 /\ isDragging
       THEN /\ isDragging' = FALSE
            /\ listeners' = removeEventListener(removeEventListener(listeners, "mousemove"),
                                                "touchmove")
       ELSE UNCHANGED <<isDragging, listeners>>
  /\ UNCHANGED <<file, format, quality, convertedUrl, convertedBlob, originalUrl,
                 zoomLevel, published, revoked, inflight, issued, succeeded, loads,
                 downloads, pos, mounted>>

\* ------------------------------------------------- useEffect: the cleanup
\* The component is unmounted: the effect's cleanup removes stopDrag from
\* mouseup and touchend and handlePaste from paste.
Unmount ==
  /\ mounted
  /\ mounted' = FALSE
  /\ listeners' = removeEventListener(
                    removeEventListener(
                      removeEventListener(listeners, "mouseup"), "touchend"), "paste")
  /\ UNCHANGED <<file, format, quality, convertedUrl, convertedBlob, originalUrl,
                 zoomLevel, published, revoked, inflight, issued, succeeded, loads,
                 downloads, pos, isDragging>>

\* ------------------------------------------------------------------- Next
\* The subtypes of the pasted items the model draws from: the alias of jpeg
\* and a type the dropzone would not accept.
PasteInputs == {"jpg", "gif"}

\* The clipboards pasted: one to MaxPasteItems image items.
Clipboards == UNION {[1..k -> PasteInputs] : k \in 1..MaxPasteItems}

Drop == \E ext \in AcceptedSubtypes : OnDrop(ext)
Paste == \E exts \in Clipboards : HandlePaste(exts)
FormatChange == \E value \in formats : HandleFormatChange(value)
QualityChange == \E q \in QualityInputs : HandleQualityChange(q)
Onload == \E r \in inflight : ImgOnload(r)
OnloadNoCtx == \E r \in inflight : ImgOnloadNoCtx(r)
Onerror == \E r \in inflight : ImgOnerror(r)
ToBlob == \E r \in inflight : \E t \in EncodedTypes(r.fmt) : ToBlobCallback(r, t)
ToBlobEmpty == \E r \in inflight : ToBlobNull(r)

PointerDownOnHandle == startDrag
MouseMove == \E x \in 0..MaxClientX : onMouseMove(x)
TouchMove == \E x \in 0..MaxClientX : onTouchMove(x)
MouseUp == stopDrag("mouseup")
TouchEnd == stopDrag("touchend")

\* The conversion pipeline: loads, parameter changes, the callbacks of the
\* conversions in flight, and reset, in any interleaving.
Next ==
  \/ Drop
  \/ Paste
  \/ FormatChange
  \/ QualityChange
  \/ Onload
  \/ OnloadNoCtx
  \/ Onerror
  \/ ToBlob
  \/ ToBlobEmpty
  \/ HandleReset

Spec == Init /\ [][Next]_vars

\* The session and its view: drops, the callbacks of the conversions in
\* flight, reset and the zoom buttons, in any interleaving.
NextView ==
  \/ Drop
  \/ Onload
  \/ OnloadNoCtx
  \/ Onerror
  \/ ToBlob
  \/ ToBlobEmpty
  \/ HandleReset
  \/ ZoomIn
  \/ ZoomOut
  \/ ZoomFit

SpecView == Init /\ [][NextView]_vars

\* Sequential use of one source image: one file is dropped into the fresh
\* component, the format is changed only while no conversion is in flight,
\* and the result is downloaded.
DropFirst == loads = 0 /\ Drop
FormatChangeIdle == inflight = {} /\ FormatChange

NextSeq ==
  \/ DropFirst
  \/ FormatChangeIdle
  \/ Onload
  \/ OnloadNoCtx
  \/ Onerror
  \/ ToBlob
  \/ ToBlobEmpty
  \/ HandleDownload

SpecSeq == Init /\ [][NextSeq]_vars

\* The comparison slider over the component's lifetime: drops (MaxSessions of
\* them) and resets, which create and remove the image view, the
\* conversions' callbacks, the pointer events of mouse and touch, and the
\* unmount.
DropInSession == loads < MaxSessions /\ Drop

NextSlider ==
  \/ DropInSession
  \/ Onload
  \/ ToBlob
  \/ HandleReset
  \/ PointerDownOnHandle
  \/ PointerDownElsewhere
  \/ MouseMove
  \/ TouchMove
  \/ MouseUp
  \/ TouchEnd
  \/ Unmount

SpecSlider == Init /\ [][NextSlider]_vars

\* Presentation of one source image: a drop, its conversion, the pointer
\* events and the zoom buttons.
NextPresent ==
  \/ DropFirst
  \/ Onload
  \/ ToBlob
  \/ PointerDownOnHandle
  \/ PointerDownElsewhere
  \/ MouseMove
  \/ TouchMove
  \/ MouseUp
  \/ TouchEnd
  \/ ZoomIn
  \/ ZoomOut
  \/ ZoomFit

SpecPresent == Init /\ [][NextPresent]_vars

\* ================================================================ claims

\* C1 (stated as claimed; the code violates it).  Last-requested-wins: once
\* every conversion has completed and the most recently issued request has
\* delivered its blob, the blob displayed for the loaded source image is the
\* one that request produced, whatever the order in which the callbacks ran.
LastRequestedWins ==
  (/\ inflight = {}
   /\ file # NoFile
   /\ issued \in succeeded
   /\ convertedBlob.src = file.n)
  => convertedBlob.req = issued

\* C2 (stated as claimed; the code violates it).  Every conversion request
\* encodes with the format and the quality selected by the action that
\* issued it: the inferred default format for a load, f for
\* handleFormatChange(f), q for handleQualityChange(q).
RequestUsesTriggerParams ==
  \A r \in inflight : r.fmt = r.wantFmt /\ r.q = r.wantQ

\* C3 (stated as claimed; the code violates it).  At most one original
\* locator and at most one converted locator are published and not revoked.
AtMostOneLivePerRole ==
  /\ Cardinality(LiveOf("original")) <= 1
  /\ Cardinality(LiveOf("converted")) <= 1

\* C4.  The locators referenced for rendering are never revoked: a non-null
\* originalUrl is a live original locator and a non-null convertedUrl is a
\* live converted locator.
RenderedLocatorsLive ==
  /\ originalUrl # NoUrl => originalUrl \in LiveOf("original")
  /\ convertedUrl # NoUrl => convertedUrl \in LiveOf("converted")

\* C4 witness: a completion has revoked the locator it captured and both
\* panes reference a locator.
RenderedAfterRevoke ==
  /\ revoked # {}
  /\ originalUrl # NoUrl
  /\ convertedUrl # NoUrl

\* C5.  Sequential use of one dropped source image: from the first
\* conversion that delivers a blob on, exactly one converted locator is live
\* and it is the one convertedUrl references.
SeqOneLiveConverted ==
  succeeded # {} => LiveOf("converted") = {convertedUrl}

\* C5 witness: the load's conversion and two format changes' conversions
\* have each delivered a blob, and nothing is in flight.
SeqThreeConverted ==
  /\ Cardinality(succeeded) >= 3
  /\ inflight = {}
  /\ Cardinality(LiveOf("converted")) = 1

\* C6.  A conversion that ends without a blob (no 2D context, a null blob, an
\* image that does not decode) changes neither convertedUrl nor
\* convertedBlob, publishes and revokes no locator, and leaves the source and
\* the selection, on which the later triggers depend, as they were.
FailedConversionKeepsState ==
  [][(Cardinality(inflight') < Cardinality(inflight) /\ succeeded' = succeeded)
       => UNCHANGED <<convertedUrl, convertedBlob, published, revoked,
                      file, originalUrl, format, quality>>]_vars

\* C6 witness: the second request has ended without a blob and the first
\* request's result is still the one displayed.
FailedAfterConverted ==
  /\ inflight = {}
  /\ issued = 2
  /\ succeeded = {1}
  /\ convertedBlob.req = 1
  /\ convertedUrl \in Live

\* C7 (stated as claimed; the code violates it).  The live locators do not
\* accumulate with the conversions and downloads made on a source image:
\* there is never more than one per kind of locator.
NoLocatorLeak ==
  Cardinality(Live) <= Cardinality(Roles)

\* C8 (stated as claimed; the code violates it).  A reset revokes the
\* original and the converted locator that were referenced before it.
ResetRevokesLocators ==
  [][(originalUrl # NoUrl /\ originalUrl' = NoUrl)
       => ({originalUrl, convertedUrl} \ {NoUrl}) \subseteq revoked']_vars

\* C9.  A step that discards the source (handleReset, from any state) leaves
\* file, originalUrl, convertedUrl and convertedBlob null and the zoom at 1.0.
ResetClearsSession ==
  [][(originalUrl # NoUrl /\ originalUrl' = NoUrl)
       => /\ file' = NoFile
          /\ convertedUrl' = NoUrl
          /\ convertedBlob' = NoBlob
          /\ zoomLevel' = InitZoom]_vars

\* C9 witness: a conversion had delivered a blob and the session has been
\* reset since: nothing is loaded and nothing is displayed.
ResetAfterConverted ==
  /\ succeeded # {}
  /\ originalUrl = NoUrl
  /\ file = NoFile
  /\ convertedBlob = NoBlob
  /\ zoomLevel = InitZoom

\* C10.  A load leaves png selected when the loaded file's subtype is jpeg
\* or jpg and jpeg selected for every other subtype, whatever was selected
\* before.
LoadSelectsDefaultFormat ==
  [][loads' > loads
       => format' = (IF file'.ext \in {"jpeg", "jpg"} THEN "png" ELSE "jpeg")]_vars

\* C10 witness: a JPEG was dropped while webp was selected (the load's
\* request still carries webp) and png is selected now.
JpegLoadedOverWebp ==
  /\ file.ext = "jpeg"
  /\ format = "png"
  /\ \E r \in inflight : r.id = issued /\ r.by = "drop" /\ r.fmt = "webp"

\* C11 (as claimed; violated).  The split position starts at 50 and stays in
\* [0, 100]; a pointer-move received while Dragging sets it to
\* clamp((clientX - left) / width * 100, 0, 100); and it changes only through
\* a pointer-move received while Dragging.
SliderOnlyMovedByDrag ==
  /\ pos = InitPos
  /\ [](pos \in 0..100)
  /\ [][(\A x \in 0..MaxClientX :
           (isDragging /\ (onMouseMove(x) \/ onTouchMove(x)))
             => (pos' = LET raw == ((x - ContainerLeft) * 100) \div ContainerWidth
                        IN IF raw < 0 THEN 0 ELSE IF raw > 100 THEN 100 ELSE raw))
        /\ (pos' # pos
             => (/\ isDragging
                 /\ \E y \in 0..MaxClientX : onMouseMove(y) \/ onTouchMove(y)))]_vars

\* C11 (amended).  The split position starts at 50 and stays in [0, 100]; a
\* pointer-move received while Dragging and while the image view is rendered
\* sets it to clamp((clientX - left) / width * 100, 0, 100); and it changes
\* only through such a pointer-move, or through a load into the empty
\* component, which creates the image view with the slider at 50 again.
SliderMovedByDragOrNewView ==
  /\ pos = InitPos
  /\ [](pos \in 0..100)
  /\ [][(\A x \in 0..MaxClientX :
           (isDragging /\ ImageViewRendered /\ (onMouseMove(x) \/ onTouchMove(x)))
             => (pos' = LET raw == ((x - ContainerLeft) * 100) \div ContainerWidth
                        IN IF raw < 0 THEN 0 ELSE IF raw > 100 THEN 100 ELSE raw))
        /\ (pos' # pos
             => (\/ (/\ isDragging
                     /\ ImageViewRendered
                     /\ \E y \in 0..MaxClientX : onMouseMove(y) \/ onTouchMove(y))
                 \/ (/\ originalUrl = NoUrl
                     /\ originalUrl' # NoUrl
                     /\ pos' = InitPos)))]_vars

\* C11 witness: in the second session the handle is being dragged and the
\* pointer, right of the container, has put the slider at 100.
DraggedToRightEdge ==
  /\ loads = 2
  /\ isDragging
  /\ ImageViewRendered
  /\ pos = 100

\* C12.  Slider state machine: the drag flag goes from Idle to Dragging only
\* in a pointer-down on the handle (which exists only in the image view); a
\* pointer-down elsewhere leaves the flag as it is; and while the component is
\* mounted every mouse-up and every touch-end, from Idle or from Dragging,
\* ends in Idle, so the next pointer-up/touch-end terminates a drag.
SliderStateMachine ==
  [][/\ (~isDragging /\ isDragging')
          => (/\ PointerDownOnHandle
              /\ originalUrl # NoUrl
              /\ mounted)
     /\ PointerDownElsewhere => (isDragging' = isDragging)
     /\ (mounted /\ (MouseUp \/ TouchEnd)) => ~isDragging']_vars

\* C12 witness: a drag has moved the slider to the left edge and a
\* pointer-up has ended it.
DragEnded ==
  /\ ImageViewRendered
  /\ pos = 0
  /\ ~isDragging

\* C13.  While the component is mounted, the window's mousemove and touchmove
\* listeners are registered exactly when the slider is Dragging, each at most
\* once, and the mouseup, touchend and paste listeners are registered (once).
MoveListenersIffDragging ==
  mounted =>
    /\ listeners["mousemove"] = (IF isDragging THEN 1 ELSE 0)
    /\ listeners["touchmove"] = (IF isDragging THEN 1 ELSE 0)
    /\ listeners["mouseup"] = 1
    /\ listeners["touchend"] = 1
    /\ listeners["paste"] = 1

\* C13 witness: in the second session a drag is in progress and has moved
\* the slider to 75, with the move listeners registered.
DraggingAgain ==
  /\ mounted
  /\ isDragging
  /\ loads = 2
  /\ pos = 75
  /\ listeners["mousemove"] = 1

\* C14 (violated).  After unmount, from Idle or from Dragging, none of the
\* window listeners the component registered remains registered.
NoListenerAfterUnmount ==
  ~mounted => \A t \in EventTypes : listeners[t] = 0

\* C15.  The zoom scalar (in tenths) starts at 1.0 and stays in [0.5, 3.0]
\* through every sequence of zoomIn, zoomOut, zoomFit and reset; zoomIn yields
\* min(current + 0.1, 3.0), zoomOut yields max(current - 0.1, 0.5), and
\* zoomFit yields exactly 1.0 from any value.
ZoomStaysInRange ==
  /\ zoomLevel = 10
  /\ [](zoomLevel \in 5..30)
  /\ [][/\ ZoomIn => zoomLevel' = (IF zoomLevel + 1 < 30 THEN zoomLevel + 1 ELSE 30)
        /\ ZoomOut => zoomLevel' = (IF zoomLevel - 1 > 5 THEN zoomLevel - 1 ELSE 5)
        /\ ZoomFit => zoomLevel' = 10]_vars

\* C15 witness: zoomed out to the floor 0.5 with a converted image displayed
\* (a further zoomOut is clamped).
ZoomedOutToFloor ==
  /\ ImageViewRendered
  /\ convertedBlob # NoBlob
  /\ zoomLevel = 5

\* C16.  Slider and zoom actions are pure presentation: a pointer-down (on
\* the handle or elsewhere), a pointer-move, a pointer-up, zoomIn, zoomOut or
\* zoomFit, and any step that changes the zoom scalar, the slider position,
\* the drag flag or the move listeners, issues no conversion request and
\* leaves the source file, format, quality, convertedBlob, convertedUrl,
\* originalUrl and the URL registry (so the set of live URLs) unchanged.
PresentationOnly ==
  [][(\/ PointerDownOnHandle \/ PointerDownElsewhere
      \/ MouseMove \/ TouchMove \/ MouseUp \/ TouchEnd
      \/ ZoomIn \/ ZoomOut \/ ZoomFit
      \/ zoomLevel' # zoomLevel
      \/ pos' # pos
      \/ isDragging' # isDragging
      \/ listeners' # listeners)
       => (/\ issued' = issued
           /\ inflight' = inflight
           /\ file' = file
           /\ format' = format
           /\ quality' = quality
           /\ convertedBlob' = convertedBlob
           /\ convertedUrl' = convertedUrl
           /\ originalUrl' = originalUrl
           /\ published' = published
           /\ revoked' = revoked)]_vars

\* C16 witness: with a converted image displayed and nothing in flight, the
\* image has been zoomed in and the slider dragged to the left edge and is
\* still being dragged.
ZoomedAndDragged ==
  /\ convertedBlob # NoBlob
  /\ inflight = {}
  /\ issued = 1
  /\ zoomLevel = 12
  /\ pos = 0
  /\ isDragging

\* C17.  Export: a download request made while a converted blob exists
\* offers exactly that blob under the name converted.<format>, with the
\* format selected at the time of the request; a request made while there is
\* no converted blob offers nothing and creates nothing; in both cases format,
\* quality, source, convertedBlob and convertedUrl are unchanged.  Nothing
\* else offers a download.
DownloadOffersCurrentBlob ==
  [][/\ HandleDownload
          => (/\ format' = format
              /\ quality' = quality
              /\ file' = file
              /\ convertedBlob' = convertedBlob
              /\ convertedUrl' = convertedUrl)
     /\ (HandleDownload /\ convertedBlob = NoBlob)
          => (downloads' = downloads /\ published' = published)
     /\ (HandleDownload /\ convertedBlob # NoBlob)
          => (/\ Len(downloads') = Len(downloads) + 1
              /\ downloads'[Len(downloads')].blob = convertedBlob
              /\ downloads'[Len(downloads')].ext = format)
     /\ downloads' # downloads
          => (/\ convertedBlob # NoBlob
              /\ downloads' = Append(downloads, [blob |-> convertedBlob,
                                                 ext |-> format]))]_vars

\* C17 witness: a blob has been downloaded under the selected format's name
\* while its own type is another one (a JPEG-encoded blob as converted.png).
DownloadedUnderSelectedFormat ==
  /\ downloads # <<>>
  /\ downloads[1].blob = convertedBlob
  /\ downloads[1].ext = format
  /\ downloads[1].ext # downloads[1].blob.type

\* C18.  Each format change and each quality change updates the selection
\* and, when a source is loaded, issues exactly one new conversion request,
\* on the loaded source, whatever is pending already; with no source loaded
\* it issues none.  A change of the selection that is not a load is such a
\* step.
ChangeIssuesOneRequest ==
  [][/\ \A v \in formats :
          HandleFormatChange(v)
            => (/\ format' = v
                /\ IF file # NoFile
                     THEN /\ issued' = issued + 1
                          /\ inflight \subseteq inflight'
                          /\ \E r \in inflight' :
                               /\ inflight' \ inflight = {r}
                               /\ r.id = issued'
                               /\ r.file = file.n
                     ELSE issued' = issued /\ inflight' = inflight)
     /\ \A q \in QualityInputs :
          HandleQualityChange(q)
            => (/\ quality' = q
                /\ IF file # NoFile
                     THEN /\ issued' = issued + 1
                          /\ inflight \subseteq inflight'
                          /\ \E r \in inflight' :
                               /\ inflight' \ inflight = {r}
                               /\ r.id = issued'
                               /\ r.file = file.n
                     ELSE issued' = issued /\ inflight' = inflight)
     /\ ((format' # format \/ quality' # quality) /\ loads' = loads)
          => issued' = issued + 1]_vars

\* C18 witness: a format change and a quality change made while the load's
\* conversion was still pending have each left a request of its own pending
\* on the loaded source: three requests are in flight.
ChangesWhilePending ==
  /\ file # NoFile
  /\ Cardinality(inflight) = 3
  /\ \E r1, r2 \in inflight :
       /\ r1.by = "format"
       /\ r2.by = "quality"
       /\ r1.file = file.n
       /\ r2.file = file.n

\* C19 (violated).  Results of superseded sessions are not applied: a
\* non-null convertedBlob was produced from the currently loaded source, so
\* there is none while no source is loaded (from a reset until a conversion
\* of a newly loaded source completes).
BlobIsOfLoadedSource ==
  convertedBlob # NoBlob
    => (/\ file # NoFile
        /\ convertedBlob.src = file.n)

\* C20 (violated).  Whenever no conversion is in flight and a converted blob
\* is displayed, the format and the quality the blob was encoded with are the
\* currently selected format and quality.
SettledBlobMatchesSelection ==
  (inflight = {} /\ convertedBlob # NoBlob)
    => (/\ convertedBlob.fmt = format
        /\ convertedBlob.q = quality)

====
